---- MODULE Spec2Model ----
(***************************************************************************)
(* KoNET answer-resolution and scoring pipeline (src/src/evaluator.py) and *)
(* the index computation of the benchmark generator (src/src/generator.py).*)
(*                                                                         *)
(* Python strings are TLA+ strings; Text gives the characters of every     *)
(* string the model uses, so that split("_"), "_".join, int(), lower() and *)
(* the substring test are computed on characters as the code computes them.*)
(***************************************************************************)
EXTENDS Integers, Sequences, FiniteSets, TLC

VARIABLES
    pc,             \* where evaluate_KoNET is: start | loop | done | returned | raised
    subFileExists,  \* the submissions file exists on disk
    ansFileExists,  \* src/utils/answers.json exists on disk
    submissions,    \* the loaded submission list
    answers,        \* the loaded answer store
    i,              \* 1-based position of the for loop in submissions
    scores,         \* category -> [acc, cnt]
    result,         \* id -> [answer, response, judgement] (and "meta" at the end)
    judgeCalls,     \* number of requests made to the external comparator
    judge_outcome,  \* what the comparator did on the latest iteration
    exc,            \* the exception that left evaluate_KoNET, "" if none
    evaluation_output, \* contents of ./evaluation_output.json: {} until written
    ret,            \* the value evaluate_KoNET returned
    idx_in,         \* characters of the id whose index is being computed
    ev_out,         \* what process_submission_id returned for idx_in
    gen_stores,     \* generator: the types, points, errors and answers stores
    gen_out         \* generator: load_dataframe's locals and rows for idx_in

evalVars == <<pc, subFileExists, ansFileExists, submissions, answers, i, scores,
              result, judgeCalls, judge_outcome, exc, evaluation_output, ret>>
idxVars == <<idx_in, ev_out, gen_stores, gen_out>>
vars == <<pc, subFileExists, ansFileExists, submissions, answers, i, scores,
          result, judgeCalls, judge_outcome, exc, evaluation_output, ret,
          idx_in, ev_out, gen_stores, gen_out>>

(***************************************************************************)
(* Bounds of the model.                                                    *)
(***************************************************************************)
\* longest submission list
MaxSubs == 2
\* largest printed question number drawn for the index computation
MaxNum == 36

(***************************************************************************)
(* Characters of the strings.                                              *)
(***************************************************************************)
Text ==
     "kocsat_1st_KoreanLanguageMedia" :> <<"k","o","c","s","a","t","_","1","s","t","_","K","o","r","e","a","n","L","a","n","g","u","a","g","e","M","e","d","i","a">> @@
     "kocsat_1st_KoreanSpeechWriting" :> <<"k","o","c","s","a","t","_","1","s","t","_","K","o","r","e","a","n","S","p","e","e","c","h","W","r","i","t","i","n","g">> @@
     "kocsat_1st_MathematicsCalculus" :> <<"k","o","c","s","a","t","_","1","s","t","_","M","a","t","h","e","m","a","t","i","c","s","C","a","l","c","u","l","u","s">> @@
     "kocsat_1st_MathematicsGeometry" :> <<"k","o","c","s","a","t","_","1","s","t","_","M","a","t","h","e","m","a","t","i","c","s","G","e","o","m","e","t","r","y">> @@
     "kocsat_1st_MathematicsStatistics" :> <<"k","o","c","s","a","t","_","1","s","t","_","M","a","t","h","e","m","a","t","i","c","s","S","t","a","t","i","s","t","i","c","s">> @@
     "kocsat_1st_English_01" :> <<"k","o","c","s","a","t","_","1","s","t","_","E","n","g","l","i","s","h","_","0","1">> @@
     "kocsat_1st_English_02" :> <<"k","o","c","s","a","t","_","1","s","t","_","E","n","g","l","i","s","h","_","0","2">> @@
     "kocsat_1st_English_03" :> <<"k","o","c","s","a","t","_","1","s","t","_","E","n","g","l","i","s","h","_","0","3">> @@
     "kocsat_1st_English_04" :> <<"k","o","c","s","a","t","_","1","s","t","_","E","n","g","l","i","s","h","_","0","4">> @@
     "kocsat_1st_English_05" :> <<"k","o","c","s","a","t","_","1","s","t","_","E","n","g","l","i","s","h","_","0","5">> @@
     "kocsat_1st_English_06" :> <<"k","o","c","s","a","t","_","1","s","t","_","E","n","g","l","i","s","h","_","0","6">> @@
     "kocsat_1st_English_07" :> <<"k","o","c","s","a","t","_","1","s","t","_","E","n","g","l","i","s","h","_","0","7">> @@
     "kocsat_1st_English_08" :> <<"k","o","c","s","a","t","_","1","s","t","_","E","n","g","l","i","s","h","_","0","8">> @@
     "kocsat_1st_English_09" :> <<"k","o","c","s","a","t","_","1","s","t","_","E","n","g","l","i","s","h","_","0","9">> @@
     "kocsat_1st_English_10" :> <<"k","o","c","s","a","t","_","1","s","t","_","E","n","g","l","i","s","h","_","1","0">> @@
     "kocsat_1st_English_11" :> <<"k","o","c","s","a","t","_","1","s","t","_","E","n","g","l","i","s","h","_","1","1">> @@
     "kocsat_1st_English_12" :> <<"k","o","c","s","a","t","_","1","s","t","_","E","n","g","l","i","s","h","_","1","2">> @@
     "kocsat_1st_English_13" :> <<"k","o","c","s","a","t","_","1","s","t","_","E","n","g","l","i","s","h","_","1","3">> @@
     "kocsat_1st_English_14" :> <<"k","o","c","s","a","t","_","1","s","t","_","E","n","g","l","i","s","h","_","1","4">> @@
     "kocsat_1st_English_15" :> <<"k","o","c","s","a","t","_","1","s","t","_","E","n","g","l","i","s","h","_","1","5">> @@
     "kocsat_1st_English_16" :> <<"k","o","c","s","a","t","_","1","s","t","_","E","n","g","l","i","s","h","_","1","6">> @@
     "kocsat_1st_English_17" :> <<"k","o","c","s","a","t","_","1","s","t","_","E","n","g","l","i","s","h","_","1","7">> @@
     "KoEGED" :> <<"K","o","E","G","E","D">> @@
     "KoMGED" :> <<"K","o","M","G","E","D">> @@
     "KoHGED" :> <<"K","o","H","G","E","D">> @@
     "KoCSAT" :> <<"K","o","C","S","A","T">> @@
     "kocsat_1st_MathematicsCalculus_23" :> <<"k","o","c","s","a","t","_","1","s","t","_","M","a","t","h","e","m","a","t","i","c","s","C","a","l","c","u","l","u","s","_","2","3">> @@
     "kocsat_1st_MathematicsCalculus_22" :> <<"k","o","c","s","a","t","_","1","s","t","_","M","a","t","h","e","m","a","t","i","c","s","C","a","l","c","u","l","u","s","_","2","2">> @@
     "kocsat_1st_English_18" :> <<"k","o","c","s","a","t","_","1","s","t","_","E","n","g","l","i","s","h","_","1","8">> @@
     "KoHGED_1st_Math_1" :> <<"K","o","H","G","E","D","_","1","s","t","_","M","a","t","h","_","1">> @@
     "kocsat_1st_Physics_1" :> <<"k","o","c","s","a","t","_","1","s","t","_","P","h","y","s","i","c","s","_","1">> @@
     "kocsat_1st_Physics_2" :> <<"k","o","c","s","a","t","_","1","s","t","_","P","h","y","s","i","c","s","_","2">> @@
     "kocsat_1st_English_x" :> <<"k","o","c","s","a","t","_","1","s","t","_","E","n","g","l","i","s","h","_","x">> @@
     "komged_koeged_1" :> <<"k","o","m","g","e","d","_","k","o","e","g","e","d","_","1">> @@
     "misc_1" :> <<"m","i","s","c","_","1">> @@
     "kocsat_1st_English" :> <<"k","o","c","s","a","t","_","1","s","t","_","E","n","g","l","i","s","h">> @@
     "KoHGED_1st_Math" :> <<"K","o","H","G","E","D","_","1","s","t","_","M","a","t","h">> @@
     "kocsat_1st_Physics" :> <<"k","o","c","s","a","t","_","1","s","t","_","P","h","y","s","i","c","s">> @@
     "komged_koeged" :> <<"k","o","m","g","e","d","_","k","o","e","g","e","d">> @@
     "misc" :> <<"m","i","s","c">> @@
     "koeged_1st_Korean" :> <<"k","o","e","g","e","d","_","1","s","t","_","K","o","r","e","a","n">>

(***************************************************************************)
(* Python primitives the code uses.                                        *)
(***************************************************************************)
UpperLetters ==
    <<"A","B","C","D","E","F","G","H","I","J","K","L","M",
      "N","O","P","Q","R","S","T","U","V","W","X","Y","Z">>
LowerLetters ==
    <<"a","b","c","d","e","f","g","h","i","j","k","l","m",
      "n","o","p","q","r","s","t","u","v","w","x","y","z">>
Digits == <<"0","1","2","3","4","5","6","7","8","9">>

\* str.lower() on one character and on a string
LowerChar(c) ==
    IF \E k \in 1..26 : UpperLetters[k] = c
    THEN LowerLetters[CHOOSE k \in 1..26 : UpperLetters[k] = c]
    ELSE c
Lower(s) == [k \in 1..Len(s) |-> LowerChar(s[k])]

\* `sub in s` on strings
Contains(s, sub) ==
    \E k \in 0..(Len(s) - Len(sub)) : SubSeq(s, k + 1, k + Len(sub)) = sub

\* s.split("_")
RECURSIVE Split(_)
Split(s) ==
    IF \A k \in 1..Len(s) : s[k] # "_"
    THEN <<s>>
    ELSE LET k == CHOOSE k \in 1..Len(s) :
                      s[k] = "_" /\ \A j \in 1..(k - 1) : s[j] # "_"
         IN <<SubSeq(s, 1, k - 1)>> \o Split(SubSeq(s, k + 1, Len(s)))

\* "_".join(parts)
RECURSIVE Join(_)
Join(parts) ==
    IF Len(parts) = 0 THEN <<>>
    ELSE IF Len(parts) = 1 THEN parts[1]
    ELSE parts[1] \o <<"_">> \o Join(Tail(parts))

\* parts[:-1]
AllButLast(parts) == SubSeq(parts, 1, Len(parts) - 1)

IsDigit(c) == \E d \in 1..10 : Digits[d] = c
DigitValue(c) == (CHOOSE d \in 1..10 : Digits[d] = c) - 1

RECURSIVE DigitsValue(_)
DigitsValue(ds) ==
    IF Len(ds) = 0 THEN 0
    ELSE 10 * DigitsValue(SubSeq(ds, 1, Len(ds) - 1)) + DigitValue(ds[Len(ds)])

\* int(seg): an optional sign followed by one or more decimal digits
\* (the segments come out of split("_"), so they hold no "_")
IntBody(seg) ==
    IF Len(seg) > 0 /\ seg[1] \in {"+", "-"} THEN Tail(seg) ELSE seg
IntRaises(seg) ==
    \/ Len(IntBody(seg)) = 0
    \/ \E k \in 1..Len(IntBody(seg)) : ~IsDigit(IntBody(seg)[k])
Int_(seg) ==
    IF Len(seg) > 0 /\ seg[1] = "-"
    THEN 0 - DigitsValue(IntBody(seg))
    ELSE DigitsValue(IntBody(seg))

\* Python's None inside a list of answers, and str() of a list element
NoneValue == "<None>"
str(v) == IF v = NoneValue THEN "None" ELSE v

\* list[k] with Python's negative indices; IndexError outside -len..len-1
IndexRaises(list, k) == k >= Len(list) \/ k < 0 - Len(list)
Index(list, k) == IF k >= 0 THEN list[k + 1] ELSE list[Len(list) + k + 1]

\* d.get(key, default) for a dict keyed by strings, key given by its characters
HasKey(d, key) == \E s \in DOMAIN d : Text[s] = key
DictGet(d, key, default) ==
    IF HasKey(d, key) THEN d[CHOOSE s \in DOMAIN d : Text[s] = key] ELSE default

(***************************************************************************)
(* The submission ids the inputs are drawn from.                            *)
(***************************************************************************)
IdPool ==
    {"kocsat_1st_English_01",             \* listening part, index 0
     "kocsat_1st_English_02",             \* listening part, index 1
     "kocsat_1st_MathematicsCalculus_23", \* offset 22, index 0
     "kocsat_1st_MathematicsCalculus_22", \* offset 22, index -1
     "KoHGED_1st_Math_1",                 \* label in its declared case
     "kocsat_1st_Physics_2",              \* prefix in no answer store, index 1
     "kocsat_1st_English_x",              \* last segment is no integer
     "komged_koeged_1",                   \* two labels in one id
     "misc_1"}                            \* no label

(***************************************************************************)
(* The evaluator's tables.                                                 *)
(***************************************************************************)
OFFSET_MAP ==
    "kocsat_1st_KoreanLanguageMedia" :> 34 @@
    "kocsat_1st_KoreanSpeechWriting" :> 34 @@
    "kocsat_1st_MathematicsCalculus" :> 22 @@
    "kocsat_1st_MathematicsGeometry" :> 22 @@
    "kocsat_1st_MathematicsStatistics" :> 22

LISTENING_PARTS ==
    <<"kocsat_1st_English_01", "kocsat_1st_English_02", "kocsat_1st_English_03",
      "kocsat_1st_English_04", "kocsat_1st_English_05", "kocsat_1st_English_06",
      "kocsat_1st_English_07", "kocsat_1st_English_08", "kocsat_1st_English_09",
      "kocsat_1st_English_10", "kocsat_1st_English_11", "kocsat_1st_English_12",
      "kocsat_1st_English_13", "kocsat_1st_English_14", "kocsat_1st_English_15",
      "kocsat_1st_English_16", "kocsat_1st_English_17">>

CATEGORIES == <<"KoEGED", "KoMGED", "KoHGED", "KoCSAT">>

Range(seq) == {seq[k] : k \in 1..Len(seq)}

(***************************************************************************)
(* process_submission_id: (prefix, adjusted_index) of an id, both given by *)
(* characters.  It raises ValueError when int() rejects the last segment.  *)
(***************************************************************************)
process_submission_id_raises(submission_id) ==
    IntRaises(Split(submission_id)[Len(Split(submission_id))])

\* the same function with OFFSET_MAP.get(prefix, 0) left out
process_submission_id_no_offset(submission_id) ==
    LET parts == Split(submission_id)
        prefix == Join(AllButLast(parts))
        question_number == Int_(parts[Len(parts)])
    IN <<prefix, question_number - 1>>

process_submission_id(submission_id) ==
    LET parts == Split(submission_id)
        prefix == Join(AllButLast(parts))
        question_number == Int_(parts[Len(parts)])
        adjusted_index == question_number - DictGet(OFFSET_MAP, prefix, 0) - 1
    IN <<prefix, adjusted_index>>

(***************************************************************************)
(* load_json: FileNotFoundError when the path does not exist.              *)
(***************************************************************************)
load_json_unchecked(exists) == FALSE

load_json_raises(exists) == ~exists

(***************************************************************************)
(* `if not submission.get("response")`: a submission is a dict with key    *)
(* "id" and, when it has one, key "response".                              *)
(***************************************************************************)
HasResponse(submission) == "response" \in DOMAIN submission

no_response_absent_only(submission) == ~HasResponse(submission)

no_response(submission) ==
    IF HasResponse(submission) THEN submission["response"] = "" ELSE TRUE

(***************************************************************************)
(* The external comparator.  An outcome is what the request did: a reply   *)
(* with its text, or an exception (transport or provider error, or the     *)
(* reference image missing in encode_image) with its message.              *)
(***************************************************************************)
NoOutcome == [kind |-> "none", text |-> ""]
JudgeReplies == {"Correct.", "Incorrect."}
JudgeErrors == {"Connection error.", "[Errno 2] No such file or directory"}
JudgeOutcomes ==
    [kind : {"reply"}, text : JudgeReplies] \cup [kind : {"error"}, text : JudgeErrors]

\* openai_response without its try/except
openai_response_uncaught(outcome) ==
    [raised |-> outcome.kind = "error", value |-> outcome.text]

\* openai_response: the reply's content, or str(e) of any exception
openai_response(outcome) ==
    [raised |-> FALSE, value |-> outcome.text]

judgement_response(outcome) == openai_response(outcome)

(***************************************************************************)
(* `submission["id"] in LISTENING_PARTS`                                   *)
(***************************************************************************)
\* the test against a list that lost its first entry
in_listening_parts_from_second(id) ==
    \E k \in 2..Len(LISTENING_PARTS) : LISTENING_PARTS[k] = id

in_listening_parts(id) ==
    \E k \in 1..Len(LISTENING_PARTS) : LISTENING_PARTS[k] = id

(***************************************************************************)
(* The category loop of evaluate_KoNET.                                    *)
(***************************************************************************)
\* `category.lower() in submission["id"]`
CategoryMatches(category, id) == Contains(Text[id], Lower(Text[category]))

\* the positions of CATEGORIES whose test succeeds, for every id of the inputs
MatchingTable ==
    [id \in IdPool |-> {k \in 1..Len(CATEGORIES) : CategoryMatches(CATEGORIES[k], id)}]

MatchingPositions(id) == MatchingTable[id]

FirstMatch(id) ==
    CHOOSE k \in MatchingPositions(id) : \A j \in MatchingPositions(id) : k <= j

\* the loop counting acc without counting cnt on a correct verdict
Tally_acc_only(sc, id, judgement) ==
    IF MatchingPositions(id) = {} THEN sc
    ELSE LET category == CATEGORIES[FirstMatch(id)]
         IN [sc EXCEPT ![category] =
                IF judgement = "Correct."
                THEN [acc |-> sc[category].acc + 1, cnt |-> sc[category].cnt]
                ELSE [acc |-> sc[category].acc, cnt |-> sc[category].cnt + 1]]

Tally(sc, id, judgement) ==
    IF MatchingPositions(id) = {} THEN sc
    ELSE LET category == CATEGORIES[FirstMatch(id)]
         IN [sc EXCEPT ![category] =
                [acc |-> sc[category].acc + (IF judgement = "Correct." THEN 1 ELSE 0),
                 cnt |-> sc[category].cnt + 1]]

(***************************************************************************)
(* The summary: a score is the exact ratio <<numerator, denominator>> of   *)
(* the float the code computes; 0 is <<0, 1>>.                             *)
(***************************************************************************)
RECURSIVE SumOver(_, _, _)
SumOver(sc, field, k) ==
    IF k = 0 THEN 0 ELSE sc[CATEGORIES[k]][field] + SumOver(sc, field, k - 1)

\* 100 * a / b with the `if b else 0` guard left out
Accuracy_unguarded(a, b) ==
    [raised |-> b = 0, value |-> <<100 * a, b>>]

\* 100 * a / b if b else 0
Accuracy(a, b) ==
    [raised |-> FALSE, value |-> IF b # 0 THEN <<100 * a, b>> ELSE <<0, 1>>]

(***************************************************************************)
(* Inputs: the file contents load_json may return.                         *)
(***************************************************************************)
ResponsePool == {"", "A"}

SubmissionPool ==
    [id : IdPool] \cup [id : IdPool, response : ResponsePool]

SubmissionLists ==
    UNION {[1..n -> SubmissionPool] : n \in 0..MaxSubs}

AnswerStores ==
    {"kocsat_1st_English" :> <<"1", "5">> @@
     "kocsat_1st_MathematicsCalculus" :> <<"3", "12">> @@
     "KoHGED_1st_Math" :> <<"2">> @@
     "komged_koeged" :> <<"4">> @@
     "misc" :> <<"1">>,
     "kocsat_1st_English" :> <<"2">>}

ZeroScores == [c \in Range(CATEGORIES) |-> [acc |-> 0, cnt |-> 0]]
NoReturn == [kind |-> "none"]
EmptyDict == [k \in {} |-> 0]

(***************************************************************************)
(* evaluate_KoNET                                                          *)
(***************************************************************************)
EvalInit ==
    /\ pc = "start"
    /\ subFileExists \in BOOLEAN
    /\ ansFileExists \in BOOLEAN
    /\ submissions = <<>>
    /\ answers = EmptyDict
    /\ i = 1
    /\ scores = ZeroScores
    /\ result = EmptyDict
    /\ judgeCalls = 0
    /\ judge_outcome = NoOutcome
    /\ exc = ""
    /\ evaluation_output = {}
    /\ ret = NoReturn

\* lines 129-136: the two load_json calls inside try/except FileNotFoundError
Load ==
    /\ pc = "start"
    /\ \/ /\ load_json_raises(subFileExists)
          /\ pc' = "returned"
          /\ ret' = [kind |-> "error", text |-> "File not found: submissions"]
          /\ UNCHANGED <<submissions, answers>>
       \/ /\ ~load_json_raises(subFileExists)
          /\ load_json_raises(ansFileExists)
          /\ pc' = "returned"
          /\ ret' = [kind |-> "error", text |-> "File not found: src/utils/answers.json"]
          /\ UNCHANGED <<submissions, answers>>
       \/ /\ ~load_json_raises(subFileExists)
          /\ ~load_json_raises(ansFileExists)
          /\ \E subs \in SubmissionLists, ans \in AnswerStores :
                /\ submissions' = subs
                /\ answers' = ans
          /\ pc' = "loop"
          /\ UNCHANGED ret
    /\ UNCHANGED <<subFileExists, ansFileExists, i, scores, result, judgeCalls,
                   judge_outcome, exc, evaluation_output>>
    /\ UNCHANGED idxVars

\* process_submission_id on every id of the inputs
ParsedIds ==
    [id \in IdPool |->
        IF process_submission_id_raises(Text[id])
        THEN [raises |-> TRUE, value |-> <<>>]
        ELSE [raises |-> FALSE, value |-> process_submission_id(Text[id])]]

\* what lines 144-145 compute for a submission
Lookup(submission) ==
    LET parsed == ParsedIds[submission["id"]].value
    IN [list |-> DictGet(answers, parsed[1], <<NoneValue>>), index |-> parsed[2]]

\* lines 138-167: one iteration of the for loop
Iterate ==
    /\ pc = "loop"
    /\ i <= Len(submissions)
    /\ LET submission == submissions[i] IN
       \/ /\ no_response(submission)                       \* continue
          /\ i' = i + 1
          /\ judge_outcome' = NoOutcome
          /\ UNCHANGED <<pc, scores, result, judgeCalls, exc>>
       \/ /\ ~no_response(submission)
          /\ ParsedIds[submission["id"]].raises
          /\ pc' = "raised"
          /\ exc' = "ValueError"
          /\ judge_outcome' = NoOutcome
          /\ UNCHANGED <<i, scores, result, judgeCalls>>
       \/ /\ ~no_response(submission)
          /\ ~ParsedIds[submission["id"]].raises
          /\ IndexRaises(Lookup(submission).list, Lookup(submission).index)
          /\ pc' = "raised"
          /\ exc' = "IndexError"
          /\ judge_outcome' = NoOutcome
          /\ UNCHANGED <<i, scores, result, judgeCalls>>
       \/ /\ ~no_response(submission)
          /\ ~ParsedIds[submission["id"]].raises
          /\ ~IndexRaises(Lookup(submission).list, Lookup(submission).index)
          /\ in_listening_parts(submission["id"])
          /\ LET ground_truth ==
                     str(Index(Lookup(submission).list, Lookup(submission).index))
                 judgement == "Correct."
             IN /\ scores' = Tally(scores, submission["id"], judgement)
                /\ result' = [k \in DOMAIN result \cup {submission["id"]} |->
                                IF k = submission["id"]
                                THEN [answer |-> ground_truth,
                                      response |-> submission["response"],
                                      judgement |-> judgement]
                                ELSE result[k]]
          /\ i' = i + 1
          /\ judge_outcome' = NoOutcome
          /\ UNCHANGED <<pc, judgeCalls, exc>>
       \/ /\ ~no_response(submission)
          /\ ~ParsedIds[submission["id"]].raises
          /\ ~IndexRaises(Lookup(submission).list, Lookup(submission).index)
          /\ ~in_listening_parts(submission["id"])
          /\ \E outcome \in JudgeOutcomes :
                LET ground_truth ==
                        str(Index(Lookup(submission).list, Lookup(submission).index))
                    call == judgement_response(outcome)
                    judgement == call.value
                IN /\ judgeCalls' = judgeCalls + 1
                   /\ judge_outcome' = outcome
                   /\ IF call.raised
                      THEN /\ pc' = "raised"
                           /\ exc' = outcome.text
                           /\ UNCHANGED <<i, scores, result>>
                      ELSE /\ scores' = Tally(scores, submission["id"], judgement)
                           /\ result' = [k \in DOMAIN result \cup {submission["id"]} |->
                                           IF k = submission["id"]
                                           THEN [answer |-> ground_truth,
                                                 response |-> submission["response"],
                                                 judgement |-> judgement]
                                           ELSE result[k]]
                           /\ i' = i + 1
                           /\ UNCHANGED <<pc, exc>>
    /\ UNCHANGED <<subFileExists, ansFileExists, submissions, answers,
                   evaluation_output, ret>>
    /\ UNCHANGED idxVars

\* lines 169-189: meta, save_json, the summary
Finish ==
    /\ pc = "loop"
    /\ i > Len(submissions)
    /\ LET total_correct == SumOver(scores, "acc", Len(CATEGORIES))
           total_count == SumOver(scores, "cnt", Len(CATEGORIES))
           konet_score == Accuracy(total_correct, total_count)
           category_score == [c \in Range(CATEGORIES) |->
                                 Accuracy(scores[c].acc, scores[c].cnt)]
           withMeta == [k \in DOMAIN result \cup {"meta"} |->
                           IF k = "meta" THEN scores ELSE result[k]]
       IN /\ result' = withMeta
          /\ evaluation_output' = {withMeta}
          /\ IF konet_score.raised \/ \E c \in Range(CATEGORIES) : category_score[c].raised
             THEN /\ pc' = "raised"
                  /\ exc' = "ZeroDivisionError"
                  /\ UNCHANGED ret
             ELSE /\ pc' = "done"
                  /\ ret' = [kind |-> "report",
                             konet_score |-> konet_score.value,
                             total_correct |-> total_correct,
                             total_count |-> total_count,
                             lines |-> [k \in 1..Len(CATEGORIES) |->
                                          [category |-> CATEGORIES[k],
                                           category_score |-> category_score[CATEGORIES[k]].value,
                                           acc |-> scores[CATEGORIES[k]].acc,
                                           cnt |-> scores[CATEGORIES[k]].cnt]]]
                  /\ UNCHANGED exc
    /\ UNCHANGED <<subFileExists, ansFileExists, submissions, answers, i, scores,
                   judgeCalls, judge_outcome>>
    /\ UNCHANGED idxVars

(***************************************************************************)
(* The index computation on ids "<prefix>_<n>": process_submission_id of   *)
(* the evaluator and the loop body of the generator's load_dataframe.      *)
(***************************************************************************)
PrefixPool ==
    {"kocsat_1st_KoreanLanguageMedia", "kocsat_1st_KoreanSpeechWriting",
     "kocsat_1st_MathematicsCalculus", "kocsat_1st_MathematicsGeometry",
     "kocsat_1st_MathematicsStatistics", "kocsat_1st_English",
     "KoHGED_1st_Math", "komged_koeged", "misc"}
Nums == (0 - 1)..MaxNum
Widths == {1, 2}

\* the decimal numeral of n, zero-padded to w digits ("01"), "-" first if n < 0
RECURSIVE Numeral(_)
Numeral(n) ==
    IF n < 10 THEN <<Digits[n + 1]>> ELSE Numeral(n \div 10) \o <<Digits[(n % 10) + 1]>>
Abs(n) == IF n < 0 THEN 0 - n ELSE n
FormatNum(n, w) ==
    (IF n < 0 THEN <<"-">> ELSE <<>>)
        \o (IF Len(Numeral(Abs(n))) < w THEN <<"0">> ELSE <<>>)
        \o Numeral(Abs(n))
FormatId(prefix, n, w) == Text[prefix] \o <<"_">> \o FormatNum(n, w)

TypeStores ==
    {EmptyDict,
     "kocsat_1st_English" :> <<"listening", "reading">> @@
     "kocsat_1st_MathematicsCalculus" :> <<"calculus", "calculus">>}

IdxInit ==
    /\ idx_in \in {FormatId(p, n, w) : p \in PrefixPool, n \in Nums, w \in Widths}
    /\ ev_out = <<>>
    /\ gen_stores \in [types : TypeStores, points : TypeStores,
                       errors : {EmptyDict}, answers : AnswerStores]
    /\ gen_out = [pc |-> "todo", number |-> 0, data |-> <<>>]

\* the evaluator parses the id
EvalParse ==
    /\ ev_out = <<>>
    /\ ~process_submission_id_raises(idx_in)
    /\ ev_out' = process_submission_id(idx_in)
    /\ UNCHANGED <<idx_in, gen_stores, gen_out>>
    /\ UNCHANGED evalVars

\* generator.py lines 164-171: the index of an image file's stem
gen_number(idx) ==
    LET idx_parts == Split(idx)
        idx_prefix == Join(AllButLast(idx_parts))
        number == Int_(idx_parts[Len(idx_parts)])
    IN IF HasKey(OFFSET_MAP, idx_prefix)
       THEN number - DictGet(OFFSET_MAP, idx_prefix, 0) - 1
       ELSE number - 1

\* `str(store.get(idx_prefix)[number]) if idx_prefix in store else ""`
gen_field_raises(store, idx_prefix, number) ==
    HasKey(store, idx_prefix) /\ IndexRaises(DictGet(store, idx_prefix, <<>>), number)
gen_field(store, idx_prefix, number) ==
    IF HasKey(store, idx_prefix)
    THEN str(Index(DictGet(store, idx_prefix, <<>>), number))
    ELSE ""

\* generator.py lines 162-186: one iteration of load_dataframe's loop
LoadDataframeStep ==
    /\ gen_out.pc = "todo"
    /\ LET idx == idx_in
           idx_prefix == Join(AllButLast(Split(idx)))
           number == gen_number(idx)
       IN \/ /\ \/ gen_field_raises(gen_stores.types, idx_prefix, number)
                \/ gen_field_raises(gen_stores.points, idx_prefix, number)
                \/ ~HasKey(gen_stores.answers, idx_prefix)          \* None[number]
                \/ IndexRaises(DictGet(gen_stores.answers, idx_prefix, <<>>), number)
             /\ gen_out' = [pc |-> "raised", number |-> number, data |-> <<>>]
          \/ /\ ~gen_field_raises(gen_stores.types, idx_prefix, number)
             /\ ~gen_field_raises(gen_stores.points, idx_prefix, number)
             /\ HasKey(gen_stores.answers, idx_prefix)
             /\ ~IndexRaises(DictGet(gen_stores.answers, idx_prefix, <<>>), number)
             /\ gen_out' =
                   [pc |-> "appended", number |-> number,
                    data |-> <<[idx |-> idx,
                                img_path |-> idx,
                                problem_type |-> gen_field(gen_stores.types, idx_prefix, number),
                                problem_point |-> gen_field(gen_stores.points, idx_prefix, number),
                                problem_answer |-> gen_field(gen_stores.answers, idx_prefix, number),
                                problem_error |-> DictGet(gen_stores.errors, idx, "")]>>]
    /\ UNCHANGED <<idx_in, ev_out, gen_stores>>
    /\ UNCHANGED evalVars

(***************************************************************************)
(* Specifications.                                                         *)
(***************************************************************************)
IdxIdle ==
    /\ idx_in = <<>>
    /\ ev_out = <<>>
    /\ gen_stores = EmptyDict
    /\ gen_out = [pc |-> "idle", number |-> 0, data |-> <<>>]

EvalIdle ==
    /\ pc = "idle"
    /\ subFileExists = FALSE
    /\ ansFileExists = FALSE
    /\ submissions = <<>>
    /\ answers = EmptyDict
    /\ i = 1
    /\ scores = ZeroScores
    /\ result = EmptyDict
    /\ judgeCalls = 0
    /\ judge_outcome = NoOutcome
    /\ exc = ""
    /\ evaluation_output = {}
    /\ ret = NoReturn

Init == EvalInit /\ IdxIdle
Next == Load \/ Iterate \/ Finish
Spec == Init /\ [][Next]_vars

InitIdx == EvalIdle /\ IdxInit
NextIdx == EvalParse \/ LoadDataframeStep
SpecIdx == InitIdx /\ [][NextIdx]_vars

(***************************************************************************)
(* Properties.                                                             *)
(***************************************************************************)
\* the for loop is about to process submissions[i]
AtSubmission == pc = "loop" /\ i <= Len(submissions)
\* the response of submissions[i] is empty or absent
EmptyOrAbsent(submission) ==
    IF "response" \in DOMAIN submission THEN submission["response"] = "" ELSE TRUE
\* the per-item entries of the result mapping
Items == DOMAIN result \ {"meta"}
TotalAcc ==
    scores["KoEGED"].acc + scores["KoMGED"].acc + scores["KoHGED"].acc + scores["KoCSAT"].acc
TotalCnt ==
    scores["KoEGED"].cnt + scores["KoMGED"].cnt + scores["KoHGED"].cnt + scores["KoCSAT"].cnt

\* offset(prefix): the table's entry, 0 for a prefix the table does not list
TableOffset(prefix) ==
    IF prefix \in DOMAIN OFFSET_MAP THEN OFFSET_MAP[prefix] ELSE 0
FormattedIds ==
    [p \in PrefixPool, n \in Nums, w \in Widths |-> FormatId(p, n, w)]

\* C1: for every id "<prefix>_<n>", process_submission_id returns
\* (prefix, n - offset(prefix) - 1), with offset 0 for an unlisted prefix;
\* ("kocsat_1st_MathematicsCalculus", 23) gives index 0; load_dataframe of the
\* generator computes the same index for the same id.
C1_AdjustedIndex ==
    /\ \A p \in PrefixPool, n \in Nums, w \in Widths :
          idx_in = FormattedIds[p, n, w] =>
             /\ ev_out # <<>> => ev_out = <<Text[p], n - TableOffset(p) - 1>>
             /\ gen_out.pc \in {"appended", "raised"} =>
                    gen_out.number = n - TableOffset(p) - 1
    /\ (idx_in = Text["kocsat_1st_MathematicsCalculus_23"] /\ ev_out # <<>>) =>
          ev_out = <<Text["kocsat_1st_MathematicsCalculus"], 0>>
    /\ (ev_out # <<>> /\ gen_out.pc \in {"appended", "raised"}) =>
          ev_out[2] = gen_out.number

C1_Witness ==
    /\ idx_in = Text["kocsat_1st_MathematicsCalculus_23"]
    /\ ev_out # <<>>
    /\ ev_out[2] = 0
    /\ gen_out.pc = "appended"
    /\ gen_out.number = 0

\* C2: in every state of a run each category's correct count (acc) is between
\* 0 and its attempted count (cnt), and the sum of the correct counts is at
\* most the sum of the attempted counts.
C2_CorrectAtMostAttempted ==
    /\ \A c \in DOMAIN scores : 0 <= scores[c].acc /\ scores[c].acc <= scores[c].cnt
    /\ TotalAcc <= TotalCnt

C2_Witness ==
    /\ pc = "loop"
    /\ scores["KoCSAT"].cnt = 2
    /\ scores["KoCSAT"].acc = 1

\* C3: processing a submission whose response is empty or absent leaves every
\* tally and the result mapping unchanged and makes no judge call, whatever
\* its id is.
C3_EmptyResponseSkipped ==
    [][(AtSubmission /\ EmptyOrAbsent(submissions[i])) =>
          /\ scores' = scores
          /\ result' = result
          /\ judgeCalls' = judgeCalls
          /\ pc' = "loop"
          /\ i' = i + 1]_vars

C3_Witness ==
    /\ pc = "loop"
    /\ i = 3
    /\ "response" \notin DOMAIN submissions[1]
    /\ submissions[1]["id"] = "kocsat_1st_English_x"
    /\ "response" \in DOMAIN submissions[2]
    /\ submissions[2]["response"] = ""
    /\ result = EmptyDict
    /\ judgeCalls = 0

\* C4: a submission whose id is in LISTENING_PARTS never makes the run contact
\* the external comparator, and whenever it is judged (its response is not
\* empty and its answer was looked up) its verdict is "Correct.", whatever the
\* ground truth and the response are.
C4_ListeningAlwaysCorrect ==
    [][(AtSubmission /\ submissions[i]["id"] \in Range(LISTENING_PARTS)) =>
          /\ judgeCalls' = judgeCalls
          /\ judge_outcome' = NoOutcome
          /\ (~EmptyOrAbsent(submissions[i]) /\ pc' = "loop") =>
                /\ submissions[i]["id"] \in DOMAIN result'
                /\ result'[submissions[i]["id"]].judgement = "Correct."
                /\ result'[submissions[i]["id"]].response = submissions[i]["response"]]_vars

C4_Witness ==
    /\ pc = "loop"
    /\ i = 2
    /\ submissions[1]["id"] = "kocsat_1st_English_01"
    /\ "kocsat_1st_English_01" \in DOMAIN result
    /\ result["kocsat_1st_English_01"].judgement = "Correct."
    /\ result["kocsat_1st_English_01"].answer = "2"
    /\ judgeCalls = 0
    /\ scores["KoCSAT"] = [acc |-> 1, cnt |-> 1]

\* C5: when the judge call fails, the error is caught and its text becomes the
\* verdict of the submission: the run goes on, the attempted count of the
\* submission's category goes up by one and no correct count goes up.
C5_JudgeErrorIsVerdict ==
    [][(AtSubmission /\ judgeCalls' = judgeCalls + 1 /\ judge_outcome'.kind = "error") =>
          LET id == submissions[i]["id"] IN
          /\ pc' = "loop"
          /\ exc' = ""
          /\ i' = i + 1
          /\ id \in DOMAIN result'
          /\ result'[id].judgement = judge_outcome'.text
          /\ \A c \in DOMAIN scores : scores'[c].acc = scores[c].acc
          /\ \A k \in 1..Len(CATEGORIES) :
                (/\ CategoryMatches(CATEGORIES[k], id)
                 /\ \A j \in 1..(k - 1) : ~CategoryMatches(CATEGORIES[j], id))
                => scores'[CATEGORIES[k]].cnt = scores[CATEGORIES[k]].cnt + 1]_vars

C5_Witness ==
    /\ pc = "loop"
    /\ i = 2
    /\ judge_outcome = [kind |-> "error", text |-> "Connection error."]
    /\ submissions[1]["id"] = "kocsat_1st_MathematicsCalculus_23"
    /\ result["kocsat_1st_MathematicsCalculus_23"].judgement = "Connection error."
    /\ scores["KoCSAT"] = [acc |-> 0, cnt |-> 1]

\* C6: the answer lookup never returns a ground truth when the prefix is
\* absent from the answer store or the adjusted index is negative or at least
\* the length of the prefix's list: every recorded answer comes from a prefix
\* of the store at an index within 0..len-1.
C6_LookupFailsOutsideStore ==
    \A id \in Items :
        LET parsed == process_submission_id(Text[id])
        IN /\ \E s \in DOMAIN answers : Text[s] = parsed[1]
           /\ \A s \in DOMAIN answers :
                 Text[s] = parsed[1] => (0 <= parsed[2] /\ parsed[2] < Len(answers[s]))

\* C7: a per-submission failure (malformed id, prefix absent from the answer
\* store, or index out of bounds) does not abort the batch: the run never ends
\* with such an exception.
C7_FailureDoesNotAbort ==
    ~(pc = "raised" /\ exc \in {"ValueError", "IndexError"})

\* C8: each judged submission is tallied under exactly the first category, in
\* the declared order, whose label is contained in the id under
\* case-insensitive comparison, and under no other; when no label matches no
\* tally changes and the entry is still recorded.
CaseInsensitiveMatch(category, id) == Contains(Lower(Text[id]), Lower(Text[category]))
C8_FirstCaseInsensitiveCategory ==
    [][(AtSubmission /\ ~EmptyOrAbsent(submissions[i]) /\ pc' = "loop") =>
          LET id == submissions[i]["id"]
              hits == {k \in 1..Len(CATEGORIES) : CaseInsensitiveMatch(CATEGORIES[k], id)}
          IN /\ id \in DOMAIN result'
             /\ \A k \in 1..Len(CATEGORIES) :
                   scores'[CATEGORIES[k]].cnt =
                      scores[CATEGORIES[k]].cnt
                         + (IF k \in hits /\ \A j \in hits : k <= j THEN 1 ELSE 0)]_vars

\* C9: when the total attempted count is zero at the end, the overall accuracy
\* is 0 and no division error occurs; a category with zero attempts reports 0;
\* otherwise the overall accuracy is 100 * (sum of correct) / (sum of attempted).
C9_AccuracyGuarded ==
    /\ exc # "ZeroDivisionError"
    /\ pc = "done" =>
          /\ ret.kind = "report"
          /\ ret.total_correct = TotalAcc
          /\ ret.total_count = TotalCnt
          /\ TotalCnt = 0 => ret.konet_score = <<0, 1>>
          /\ TotalCnt # 0 =>
                /\ ret.konet_score[2] # 0
                /\ ret.konet_score[1] * TotalCnt = 100 * TotalAcc * ret.konet_score[2]
          /\ \A k \in 1..Len(CATEGORIES) :
                /\ ret.lines[k].category = CATEGORIES[k]
                /\ scores[CATEGORIES[k]].cnt = 0 => ret.lines[k].category_score = <<0, 1>>
                /\ scores[CATEGORIES[k]].cnt # 0 =>
                      /\ ret.lines[k].category_score[2] # 0
                      /\ ret.lines[k].category_score[1] * scores[CATEGORIES[k]].cnt =
                            100 * scores[CATEGORIES[k]].acc * ret.lines[k].category_score[2]

C9_Witness ==
    /\ pc = "done"
    /\ TotalCnt = 0
    /\ "misc_1" \in DOMAIN result
    /\ ret.konet_score = <<0, 1>>

\* C10: if the submissions file or the answers file is missing, evaluate_KoNET
\* stops at once and returns the error message: no submission is processed,
\* the judge is never called and no output file is written.
C10_MissingFileStopsRun ==
    (~subFileExists \/ ~ansFileExists) =>
        /\ pc \in {"start", "returned"}
        /\ pc = "returned" => ret.kind = "error"
        /\ pc = "start" => ret = NoReturn
        /\ i = 1
        /\ submissions = <<>>
        /\ result = EmptyDict
        /\ scores = ZeroScores
        /\ judgeCalls = 0
        /\ evaluation_output = {}

C10_Witness ==
    /\ subFileExists
    /\ ~ansFileExists
    /\ pc = "returned"
    /\ ret = [kind |-> "error", text |-> "File not found: src/utils/answers.json"]
====
